---- MODULE Spec2Model ----
(***************************************************************************)
(* State-machine model of the Databricks "function" resource               *)
(* (internal/providers/pluginfw/products/catalog/resource_function.go):    *)
(* the FunctionResource lifecycle handlers Configure, ImportState, Create, *)
(* Read, Update and Delete, the stabilization wait waitForFunction, and    *)
(* the remote Functions API they call.                                     *)
(*                                                                         *)
(* Names are sequences of components: a function name is <<n>>, the        *)
(* qualified name "c.s.n" is <<c, s, n>>, the empty string is <<>>.        *)
(* Time is counted in whole seconds since the wait began.                  *)
(***************************************************************************)
EXTENDS Integers, Sequences, FiniteSets, TLC

VARIABLES
    Client,      \* FunctionResource.Client: "nil" or "configured"
    remote,      \* the remote system: qualified name -> object or Absent
    state,       \* the tracked (Terraform) state of the resource instance
    pc,          \* "idle", or the position of a Create inside retries.Poll
    op,          \* the handler invoked last (or in progress)
    planFunc,    \* Create: the plan read at line 108
    funcInfo,    \* Create: *funcInfo, the provisional object of line 120
    attempt,     \* retries.Poll: number of calls of the poll function
    lastErr,     \* retries.Poll: the error of the last poll that has to be retried
    result,      \* what retries.Poll returned: the object of the Ready poll
    err,         \* what retries.Poll returned: the error, NoErr for nil
    now,         \* seconds elapsed since retries.Poll was entered
    timerAt,     \* retries.Poll: when the armed backoff timer fires
    cancelled,   \* the caller's context of the Create in progress is done
    diags,       \* resp.Diagnostics of the invocation
    calls,       \* remote calls of the invocation, with their answers
    removed,     \* the invocation called resp.State.RemoveResource
    stateSet,    \* the invocation called resp.State.Set
    before       \* remote system and tracked state when the invocation began

vars == <<Client, remote, state, pc, op, planFunc, funcInfo,
          attempt, lastErr, result, err, now, timerAt, cancelled,
          diags, calls, removed, stateSet,
          before>>

----------------------------------------------------------------------------
(* Bounds of the model *)

\* longest duration, in seconds, of one remote GetByName call of the wait
MaxCallTime == 2

(* Program constants *)

\* const timeout = 5 * time.Minute, in seconds
timeout == 300

\* retries.Poll: the backoff after attempt n is n seconds, at most maxWait
maxWait == 10

----------------------------------------------------------------------------
(* Values *)

Names == {<<"fa">>}
CatalogName == <<"main">>
SchemaName == <<"default">>
Definitions == {<<"d1">>, <<"d2">>}

\* the qualified name the remote system gives a function
QualifiedName(c, s, n) == c \o s \o n

FullNames == {QualifiedName(CatalogName, SchemaName, n) : n \in Names}

\* identities an operator may hand to import: qualified, unqualified, unknown
ImportIDs == FullNames \cup Names \cup {<<"main", "default", "fz">>}

\* durations of one remote call of the wait
CallTimes == 0..MaxCallTime

\* the random jitter retries.Poll adds to a backoff (50ms..750ms), rounded
Jitter == {0, 1}

\* types.String of the plugin framework: null, or a known value
StringNull == [IsNull |-> TRUE, Value |-> <<>>]
StringValue(s) == [IsNull |-> FALSE, Value |-> s]
ValueString(a) == IF a.IsNull THEN <<>> ELSE a.Value

Absent == [Exists |-> FALSE, RoutineDefinition |-> <<>>, Visible |-> FALSE]

\* zero values: catalog.FunctionInfo{}, catalog_tf.FunctionInfo{}, a null state
NoInfo == [FullName |-> <<>>, Name |-> <<>>, CatalogName |-> <<>>,
           SchemaName |-> <<>>, RoutineDefinition |-> <<>>]
NoFunc == [name |-> StringNull, catalog_name |-> StringNull,
           schema_name |-> StringNull, full_name |-> StringNull,
           routine_definition |-> StringNull]
StateNull == [Null |-> TRUE, Func |-> NoFunc]
StateOf(f) == [Null |-> FALSE, Func |-> f]

\* the plans the host can hand to Create and Update: the required fields are
\* populated, the read-only full_name is what the prior state holds (null for
\* a resource that is not tracked yet)
Plans(prior) ==
    {[name |-> StringValue(n), catalog_name |-> StringValue(CatalogName),
      schema_name |-> StringValue(SchemaName), full_name |-> prior.full_name,
      routine_definition |-> StringValue(d)] : n \in Names, d \in Definitions}

----------------------------------------------------------------------------
(* Errors and diagnostics *)

NoErr == [Prefix |-> "", Msg |-> "", Arg |-> <<>>]
\* err.Error() of an error of the remote API
ErrorText(e) == [Prefix |-> "", Msg |-> "%s", Arg |-> <<e>>]
\* fmt.Errorf("function %s is not yet available", funcInfo.FullName)
NotYetAvailable(h) ==
    [Prefix |-> "", Msg |-> "function %s is not yet available", Arg |-> h]
\* variant: the halting error is worded like the retried one
FailedToGetAsNotYet(e) ==
    [Prefix |-> "timed out: ", Msg |-> "function %s is not yet available", Arg |-> <<e>>]

\* fmt.Errorf("failed to get function: %s", err)
FailedToGet(e) == [Prefix |-> "", Msg |-> "failed to get function: %s", Arg |-> <<e>>]
\* retries.Poll: fmt.Errorf("timed out: %w", lastErr)
TimedOut(e) == [e EXCEPT !.Prefix = "timed out: "]

ErrorDiagnostic(summary, detail) == [Summary |-> summary, Detail |-> detail]
HasError(d) == Len(d) > 0

\* a local step of a handler that can fail with diagnostics: reading the plan
\* or the state ("get"), converting to the request ("toGo"), converting the
\* answer ("toTf"); "none" when each of them succeeds
StepDiags(step) == <<ErrorDiagnostic(step, ErrorText("value conversion error"))>>

\* variant: State.Set is reached although the diagnostics hold an error
SetRegardless(d, prior, new) == new

\* if resp.Diagnostics.HasError() { return } before resp.State.Set: the
\* tracked state after the handler
SetUnlessError(d, prior, new) == IF HasError(d) THEN prior ELSE new

\* the failure of Client.GetWorkspaceClient()
ClientDiags(wcOk) ==
    IF wcOk THEN <<>>
    ELSE <<ErrorDiagnostic("failed to get workspace client", ErrorText("no client"))>>

----------------------------------------------------------------------------
(* The remote Functions API. An answer is ok with an object, an error of the
   "missing" class, or another error. `fault` is a failure of the remote
   layer that has nothing to do with the object (transport, permission). *)

Ok(info) == [Kind |-> "ok", Info |-> info, Err |-> ""]
Missing == [Kind |-> "missing", Info |-> NoInfo, Err |-> "does not exist"]
Other(e) == [Kind |-> "other", Info |-> NoInfo, Err |-> e]

InfoOf(h, o) == [FullName |-> h, Name |-> <<h[3]>>, CatalogName |-> <<h[1]>>,
                 SchemaName |-> <<h[2]>>, RoutineDefinition |-> o.RoutineDefinition]

\* the object a handle addresses: only a qualified name addresses one
Lookup(store, h) == IF h \in DOMAIN store THEN store[h] ELSE Absent

Functions_GetByName(store, h, fault) ==
    IF fault THEN Other("internal error")
    ELSE IF Lookup(store, h).Exists /\ Lookup(store, h).Visible
         THEN Ok(InfoOf(h, store[h]))
         ELSE Missing

\* a created object is not queryable until the remote system has settled
Functions_Create(store, req, fault) ==
    LET full == QualifiedName(req.CatalogName, req.SchemaName, req.Name) IN
    IF fault THEN [Resp |-> Other("internal error"), Store |-> store]
    ELSE IF full \notin DOMAIN store
         THEN [Resp |-> Other("invalid name"), Store |-> store]
    ELSE IF store[full].Exists
         THEN [Resp |-> Other("already exists"), Store |-> store]
    ELSE LET o == [Exists |-> TRUE, RoutineDefinition |-> req.RoutineDefinition,
                   Visible |-> FALSE] IN
         [Resp |-> Ok(InfoOf(full, o)), Store |-> [store EXCEPT ![full] = o]]

Functions_Update(store, req, fault) ==
    IF fault THEN [Resp |-> Other("internal error"), Store |-> store]
    ELSE IF ~Lookup(store, req.Name).Exists
         THEN [Resp |-> Missing, Store |-> store]
    ELSE LET o == [store[req.Name] EXCEPT !.RoutineDefinition = req.RoutineDefinition] IN
         [Resp |-> Ok(InfoOf(req.Name, o)), Store |-> [store EXCEPT ![req.Name] = o]]

Functions_DeleteByName(store, h, fault) ==
    IF fault THEN [Resp |-> Other("internal error"), Store |-> store]
    ELSE IF ~Lookup(store, h).Exists
         THEN [Resp |-> Missing, Store |-> store]
    ELSE [Resp |-> Ok(NoInfo), Store |-> [store EXCEPT ![h] = Absent]]

\* apierr.IsMissing(err)
IsMissing(resp) == resp.Kind = "missing"

\* one entry of the log of remote calls: the call, its handle, its answer
Call(api, arg, resp) == [Api |-> api, Arg |-> arg, Resp |-> resp.Kind, Err |-> resp.Err]

----------------------------------------------------------------------------
(* converters: the struct conversions between the two schema shapes. Fields
   of the same name are copied; fields absent from one side are untouched. *)

\* TfSdkToGoSdkStruct(ctx, planFunc, &createReq)
TfSdkToGoSdkCreate(f) ==
    [Name |-> ValueString(f.name), CatalogName |-> ValueString(f.catalog_name),
     SchemaName |-> ValueString(f.schema_name),
     RoutineDefinition |-> ValueString(f.routine_definition)]

\* TfSdkToGoSdkStruct(ctx, planFunc, &updateReq)
TfSdkToGoSdkUpdate(f) ==
    [Name |-> ValueString(f.name),
     RoutineDefinition |-> ValueString(f.routine_definition)]

\* GoSdkToTfSdkStruct(ctx, funcInfo, &tfFunc)
GoSdkToTfSdkStruct(info, f) ==
    [name |-> StringValue(info.Name), catalog_name |-> StringValue(info.CatalogName),
     schema_name |-> StringValue(info.SchemaName),
     full_name |-> StringValue(info.FullName),
     routine_definition |-> StringValue(info.RoutineDefinition)]

----------------------------------------------------------------------------
(* Initial state: a fresh FunctionResource (ResourceFunction), nothing
   tracked, nothing on the remote system. *)

Init ==
    /\ Client = "nil"
    /\ remote = [h \in FullNames |-> Absent]
    /\ state = StateNull
    /\ pc = "idle"
    /\ op = "none"
    /\ planFunc = NoFunc
    /\ funcInfo = NoInfo
    /\ attempt = 0
    /\ lastErr = NoErr
    /\ result = NoInfo
    /\ err = NoErr
    /\ now = 0
    /\ timerAt = 0
    /\ cancelled = FALSE
    /\ diags = <<>>
    /\ calls = <<>>
    /\ removed = FALSE
    /\ stateSet = FALSE
    /\ before = [remote |-> [h \in FullNames |-> Absent], state |-> StateNull]

\* the locals of a Create and of its wait, which no other handler has
NoWait ==
    /\ planFunc' = NoFunc
    /\ funcInfo' = NoInfo
    /\ attempt' = 0
    /\ lastErr' = NoErr
    /\ result' = NoInfo
    /\ err' = NoErr
    /\ now' = 0
    /\ timerAt' = 0
    /\ cancelled' = FALSE

\* the host invokes a handler: one at a time on a resource instance, and only
\* on a configured resource (r.Client is dereferenced first)
Invoke(name) ==
    /\ pc = "idle"
    /\ Client = "configured"
    /\ op' = name
    /\ before' = [remote |-> remote, state |-> state]

\* a handler that returns with these diagnostics and calls, the tracked state
\* as the host keeps it afterwards
Return(d, c, st, rem, set) ==
    /\ diags' = d
    /\ calls' = c
    /\ state' = st
    /\ removed' = rem
    /\ stateSet' = set

----------------------------------------------------------------------------
(* Configure and ImportState *)

\* variant: the client is assigned on every call, whatever r.Client holds
ConfigureOverwrites(providerData) ==
    /\ Client' = IF providerData THEN "configured" ELSE "nil"
    /\ UNCHANGED <<remote, state, pc, op, planFunc, funcInfo, attempt, lastErr,
                   result, err, now, timerAt, cancelled, diags, calls, removed, stateSet,
                   before>>

\* the host may call Configure at any time, also while a Create is waiting
Configure(providerData) ==
    /\ Client' = IF Client = "nil" /\ providerData THEN "configured" ELSE Client
    /\ UNCHANGED <<remote, state, pc, op, planFunc, funcInfo, attempt, lastErr,
                   result, err, now, timerAt, cancelled, diags, calls, removed, stateSet,
                   before>>

\* resource.ImportStatePassthroughID(ctx, path.Root("full_name"), req, resp):
\* the new state has the attribute full_name set to req.ID and all others null
ImportStatePassthroughID(id) == StateOf([NoFunc EXCEPT !.full_name = StringValue(id)])

ImportState(id) ==
    /\ Invoke("ImportState")
    /\ state.Null
    /\ Return(<<>>, <<>>, ImportStatePassthroughID(id), FALSE, TRUE)
    /\ NoWait
    /\ UNCHANGED <<Client, remote, pc>>

----------------------------------------------------------------------------
(* Read *)

\* line 190: funcName := stateFunc.Name.ValueString()
ReadFuncName(stateFunc) == ValueString(stateFunc.name)

\* variant: a missing object is reported like any other error
ReadRemovesNever(resp) == FALSE

\* variant: any error of GetByName removes the resource from state
ReadRemovesOnAnyError(resp) == resp.Kind # "ok"

\* lines 193-197: a missing object removes the resource from state
ReadRemoves(resp) == resp.Kind # "ok" /\ IsMissing(resp)

Read(wcOk, fault, brk) ==
    /\ Invoke("Read")
    /\ ~state.Null
    /\ LET stateFunc == state.Func
           funcName == ReadFuncName(stateFunc)
           resp == Functions_GetByName(remote, funcName, fault)
           get == <<Call("GetByName", funcName, resp)>>
       IN
       IF ~wcOk THEN Return(ClientDiags(wcOk), <<>>, state, FALSE, FALSE)
       ELSE IF brk = "get" THEN Return(StepDiags(brk), <<>>, state, FALSE, FALSE)
       ELSE IF ReadRemoves(resp) THEN Return(<<>>, get, StateNull, TRUE, FALSE)
       ELSE IF resp.Kind # "ok"
            THEN Return(<<ErrorDiagnostic("failed to get function", ErrorText(resp.Err))>>,
                        get, state, FALSE, FALSE)
       ELSE LET d == IF brk = "toTf" THEN StepDiags(brk) ELSE <<>> IN
            Return(d, get,
                   SetUnlessError(d, state,
                                  StateOf(GoSdkToTfSdkStruct(resp.Info, stateFunc))),
                   FALSE, ~HasError(d))
    /\ NoWait
    /\ UNCHANGED <<Client, remote, pc>>

----------------------------------------------------------------------------
(* Delete *)

\* line 219: req.State.GetAttribute(ctx, path.Root("full_name"), &deleteReq.Name)
DeleteName(st) == ValueString(st.Func.full_name)

\* variant: every error of DeleteByName is reported
DeleteFailsOnAnyError(resp) == resp.Kind # "ok"

\* variant: every error of DeleteByName is swallowed
DeleteFailsNever(resp) == FALSE

\* line 225: err != nil && !apierr.IsMissing(err)
DeleteFails(resp) == resp.Kind # "ok" /\ ~IsMissing(resp)

\* variant: a failed DeleteByName is tried once more
DeleteRetrying(wcOk, fault, brk) ==
    /\ Invoke("Delete")
    /\ ~state.Null
    /\ LET name == DeleteName(state)
           r == Functions_DeleteByName(remote, name, fault)
           del == <<Call("DeleteByName", name, r.Resp)>>
       IN
       IF ~wcOk
       THEN Return(ClientDiags(wcOk), <<>>, state, FALSE, FALSE) /\ remote' = remote
       ELSE IF brk = "get"
       THEN Return(StepDiags(brk), <<>>, state, FALSE, FALSE) /\ remote' = remote
       ELSE /\ remote' = r.Store
            /\ IF DeleteFails(r.Resp)
               THEN Return(<<ErrorDiagnostic("failed to delete function",
                                             ErrorText(r.Resp.Err))>>,
                           del \o del, state, FALSE, FALSE)
               ELSE Return(<<>>, del, StateNull, FALSE, FALSE)
    /\ NoWait
    /\ UNCHANGED <<Client, pc>>

\* the host drops the resource from state when Delete reports no error
Delete(wcOk, fault, brk) ==
    /\ Invoke("Delete")
    /\ ~state.Null
    /\ LET name == DeleteName(state)
           r == Functions_DeleteByName(remote, name, fault)
           del == <<Call("DeleteByName", name, r.Resp)>>
       IN
       IF ~wcOk
       THEN Return(ClientDiags(wcOk), <<>>, state, FALSE, FALSE) /\ remote' = remote
       ELSE IF brk = "get"
       THEN Return(StepDiags(brk), <<>>, state, FALSE, FALSE) /\ remote' = remote
       ELSE /\ remote' = r.Store
            /\ IF DeleteFails(r.Resp)
               THEN Return(<<ErrorDiagnostic("failed to delete function",
                                             ErrorText(r.Resp.Err))>>,
                           del, state, FALSE, FALSE)
               ELSE Return(<<>>, del, StateNull, FALSE, FALSE)
    /\ NoWait
    /\ UNCHANGED <<Client, pc>>

----------------------------------------------------------------------------
(* Update *)

Update(plan, wcOk, fault, brk) ==
    /\ Invoke("Update")
    /\ ~state.Null
    /\ LET updateReq == TfSdkToGoSdkUpdate(plan)
           r == Functions_Update(remote, updateReq, fault)
           upd == <<Call("Update", updateReq.Name, r.Resp)>>
       IN
       IF ~wcOk
       THEN Return(ClientDiags(wcOk), <<>>, state, FALSE, FALSE) /\ remote' = remote
       ELSE IF brk \in {"get", "toGo"}
       THEN Return(StepDiags(brk), <<>>, state, FALSE, FALSE) /\ remote' = remote
       ELSE /\ remote' = r.Store
            /\ IF r.Resp.Kind # "ok"
               THEN Return(<<ErrorDiagnostic("failed to update function",
                                             ErrorText(r.Resp.Err))>>,
                           upd, state, FALSE, FALSE)
               ELSE LET d == IF brk = "toTf" THEN StepDiags(brk) ELSE <<>> IN
                    Return(d, upd,
                           SetUnlessError(d, state,
                                          StateOf(GoSdkToTfSdkStruct(r.Resp.Info, plan))),
                           FALSE, ~HasError(d))
    /\ NoWait
    /\ UNCHANGED <<Client, pc>>

----------------------------------------------------------------------------
(* Create and the stabilization wait *)

Min(a, b) == IF a < b THEN a ELSE b
Max(a, b) == IF a < b THEN b ELSE a

\* lines 99-124: up to the remote Create call; on success the handler enters
\* waitForFunction, that is retries.Poll with a deadline `timeout` from now
\* variant: the error of w.Functions.Create is not looked at
CreateFailedIgnored(resp) == FALSE

\* line 121: err != nil after w.Functions.Create
CreateFailed(resp) == resp.Kind # "ok"

Create(plan, wcOk, fault, brk) ==
    /\ Invoke("Create")
    /\ state.Null
    /\ LET createReq == TfSdkToGoSdkCreate(plan)
           r == Functions_Create(remote, createReq, fault)
           cre == <<Call("Create", createReq.Name, r.Resp)>>
       IN
       IF ~wcOk
       THEN /\ Return(ClientDiags(wcOk), <<>>, state, FALSE, FALSE)
            /\ remote' = remote /\ pc' = pc /\ NoWait
       ELSE IF brk \in {"get", "toGo"}
       THEN /\ Return(StepDiags(brk), <<>>, state, FALSE, FALSE)
            /\ remote' = remote /\ pc' = pc /\ NoWait
       ELSE IF CreateFailed(r.Resp)
       THEN /\ Return(<<ErrorDiagnostic("failed to create function",
                                        ErrorText(r.Resp.Err))>>,
                      cre, state, FALSE, FALSE)
            /\ remote' = r.Store /\ pc' = pc /\ NoWait
       ELSE /\ Return(<<>>, cre, state, FALSE, FALSE)
            /\ remote' = r.Store
            /\ pc' = "poll"
            /\ planFunc' = plan
            /\ funcInfo' = r.Resp.Info
            /\ attempt' = 0 /\ now' = 0 /\ timerAt' = 0 /\ cancelled' = FALSE
            /\ lastErr' = NoErr /\ result' = NoInfo /\ err' = NoErr
    /\ UNCHANGED Client

\* variant: every error is retried (retries.Continue where Halt is meant)
PollClassifyRetryAll(resp) ==
    IF resp.Kind # "ok" THEN "continue" ELSE "ready"

\* variant: a found object is polled again (the result is dropped)
PollClassifyNeverReady(resp) ==
    IF resp.Kind # "ok"
    THEN IF IsMissing(resp) THEN "continue" ELSE "halt"
    ELSE "continue"

\* lines 36-43: the poll function's verdict on one GetByName answer
PollClassify(resp) ==
    IF resp.Kind # "ok"
    THEN IF IsMissing(resp) THEN "continue" ELSE "halt"
    ELSE "ready"

\* retries.Poll: the pause after the n-th attempt, with jitter j
backoff(n, j) == Min(n, maxWait) + j

\* variant: a shorter timeout than the configured one
DeadlineEarly == timeout - maxWait

\* variant: the wait's context is given no deadline that the wait can reach
DeadlineNever == timeout * 1000

\* retries.Poll: the context of the wait is done at the deadline
Deadline == timeout

\* one turn of retries.Poll's loop: attempt++, call the poll function (one
\* GetByName of d seconds on the caller's context), return on a result or a
\* halting error, else arm the backoff timer
WaitPoll(d, j, fault) ==
    /\ pc = "poll"
    /\ LET resp == IF cancelled THEN Other("context canceled")
                   ELSE Functions_GetByName(remote, funcInfo.FullName, fault)
           verdict == PollClassify(resp)
       IN
       /\ attempt' = attempt + 1
       /\ now' = now + d
       /\ calls' = Append(calls, Call("GetByName", funcInfo.FullName, resp))
       /\ IF verdict = "ready"
          THEN /\ result' = resp.Info /\ err' = NoErr /\ pc' = "returned"
               /\ UNCHANGED <<lastErr, timerAt>>
          ELSE IF verdict = "halt"
          THEN /\ err' = FailedToGet(resp.Err) /\ pc' = "returned"
               /\ UNCHANGED <<result, lastErr, timerAt>>
          ELSE /\ lastErr' = NotYetAvailable(funcInfo.FullName)
               /\ timerAt' = now' + backoff(attempt', j)
               /\ pc' = "sleep"
               /\ UNCHANGED <<result, err>>
    /\ UNCHANGED <<Client, remote, state, op, planFunc, funcInfo, cancelled,
                   diags, removed, stateSet, before>>

\* variant: the select does not look at the caller's context
WaitTimerIgnoringCancel ==
    /\ pc = "sleep"
    /\ timerAt <= Deadline
    /\ now' = timerAt
    /\ pc' = "poll"
    /\ UNCHANGED <<Client, remote, state, op, planFunc, funcInfo, attempt,
                   lastErr, result, err, timerAt, cancelled, diags, calls,
                   removed, stateSet, before>>

\* retries.Poll's select, case <-timer.C: the timer fires before the context
\* is done (at the same instant either case may be taken)
WaitTimer ==
    /\ pc = "sleep"
    /\ ~cancelled
    /\ timerAt <= Deadline
    /\ now' = timerAt
    /\ pc' = "poll"
    /\ UNCHANGED <<Client, remote, state, op, planFunc, funcInfo, attempt,
                   lastErr, result, err, timerAt, cancelled, diags, calls,
                   removed, stateSet, before>>

\* retries.Poll's select, case <-ctx.Done(): the deadline passes, or the
\* caller cancels, before the timer fires
WaitCtxDone ==
    /\ pc = "sleep"
    /\ cancelled \/ Deadline <= timerAt
    /\ IF cancelled
       THEN now' \in now..Max(now, Min(timerAt, Deadline))
       ELSE now' = Max(now, Deadline)
    /\ err' = TimedOut(lastErr)
    /\ pc' = "returned"
    /\ UNCHANGED <<Client, remote, state, op, planFunc, funcInfo, attempt,
                   lastErr, result, timerAt, cancelled, diags, calls, removed,
                   stateSet, before>>

\* variant: line 50 is missing, *funcInfo stays the answer of the Create call
FuncInfoKeepsProvisional(e, provisional, polled) == provisional

\* lines 46-51: *funcInfo when waitForFunction returns: overwritten with the
\* polled object on success, left as it was on failure
FuncInfoAfterWait(e, provisional, polled) ==
    IF e # NoErr THEN provisional ELSE polled

\* variant: a Create whose wait failed deletes the object it created
WaitReturnCompensating(brk) ==
    /\ pc = "returned"
    /\ IF err # NoErr
       THEN /\ Return(<<ErrorDiagnostic("failed to create function", err)>>,
                      Append(calls, Call("DeleteByName", funcInfo.FullName, Ok(NoInfo))),
                      state, FALSE, FALSE)
            /\ remote' = Functions_DeleteByName(remote, funcInfo.FullName, FALSE).Store
       ELSE /\ LET d == IF brk = "toTf" THEN StepDiags(brk) ELSE <<>> IN
               Return(d, calls,
                      SetUnlessError(d, state,
                                     StateOf(GoSdkToTfSdkStruct(
                                         FuncInfoAfterWait(err, funcInfo, result),
                                         planFunc))),
                      FALSE, ~HasError(d))
            /\ remote' = remote
    /\ pc' = "idle"
    /\ NoWait
    /\ UNCHANGED <<Client, op, before>>

\* lines 46-51 of waitForFunction, then lines 126-136 of Create
WaitReturn(brk) ==
    /\ pc = "returned"
    /\ IF err # NoErr
       THEN Return(<<ErrorDiagnostic("failed to create function", err)>>,
                   calls, state, FALSE, FALSE)
       ELSE LET d == IF brk = "toTf" THEN StepDiags(brk) ELSE <<>> IN
            Return(d, calls,
                   SetUnlessError(d, state,
                                  StateOf(GoSdkToTfSdkStruct(
                                      FuncInfoAfterWait(err, funcInfo, result),
                                      planFunc))),
                   FALSE, ~HasError(d))
    /\ pc' = "idle"
    /\ NoWait
    /\ UNCHANGED <<Client, remote, op, before>>

----------------------------------------------------------------------------
(* The environment *)

\* the caller cancels the context of the Create in progress
CtxCancel ==
    /\ pc \in {"poll", "sleep"}
    /\ ~cancelled
    /\ cancelled' = TRUE
    /\ UNCHANGED <<Client, remote, state, pc, op, planFunc, funcInfo, attempt,
                   lastErr, result, err, now, timerAt, diags, calls, removed,
                   stateSet, before>>

\* the remote system settles: a created object becomes queryable
RemoteSettles(h) ==
    /\ remote[h].Exists
    /\ ~remote[h].Visible
    /\ remote' = [remote EXCEPT ![h].Visible = TRUE]
    /\ UNCHANGED <<Client, state, pc, op, planFunc, funcInfo, attempt, lastErr,
                   result, err, now, timerAt, cancelled, diags, calls, removed,
                   stateSet, before>>

----------------------------------------------------------------------------

Next ==
    \/ \E providerData \in BOOLEAN : Configure(providerData)
    \/ \E id \in ImportIDs : ImportState(id)
    \/ \E plan \in Plans(NoFunc), wcOk \in BOOLEAN, fault \in BOOLEAN,
          brk \in {"none", "get", "toGo"} :
          Create(plan, wcOk, fault, brk)
    \/ \E d \in CallTimes, j \in Jitter, fault \in BOOLEAN : WaitPoll(d, j, fault)
    \/ WaitTimer
    \/ WaitCtxDone
    \/ \E brk \in {"none", "toTf"} : WaitReturn(brk)
    \/ \E wcOk \in BOOLEAN, fault \in BOOLEAN, brk \in {"none", "get", "toTf"} :
          Read(wcOk, fault, brk)
    \/ \E plan \in Plans(state.Func), wcOk \in BOOLEAN, fault \in BOOLEAN,
          brk \in {"none", "get", "toGo", "toTf"} :
          Update(plan, wcOk, fault, brk)
    \/ \E wcOk \in BOOLEAN, fault \in BOOLEAN, brk \in {"none", "get"} :
          Delete(wcOk, fault, brk)
    \/ CtxCancel
    \/ \E h \in FullNames : RemoteSettles(h)

Spec == Init /\ [][Next]_vars

\* another client of the remote system changes an object: the remote system
\* is shared, and an object may change between the Create call and the poll
\* that finds it
RemoteEdit(h, d) ==
    /\ remote[h].Exists
    /\ remote[h].RoutineDefinition # d
    /\ remote' = [remote EXCEPT ![h].RoutineDefinition = d]
    /\ UNCHANGED <<Client, state, pc, op, planFunc, funcInfo, attempt, lastErr,
                   result, err, now, timerAt, cancelled, diags, calls, removed,
                   stateSet, before>>

NextShared ==
    \/ Next
    \/ \E h \in FullNames, d \in Definitions : RemoteEdit(h, d)

\* the resource on a remote system that other clients write to
SpecShared == Init /\ [][NextShared]_vars

\* the goroutine of a Create in progress keeps running: a remote call returns,
\* a select takes a case that is ready, a returning function returns
FairSpec ==
    /\ Spec
    /\ WF_vars(\E d \in CallTimes, j \in Jitter, fault \in BOOLEAN : WaitPoll(d, j, fault))
    /\ WF_vars(WaitTimer)
    /\ WF_vars(WaitCtxDone)
    /\ WF_vars(\E brk \in {"none", "toTf"} : WaitReturn(brk))

----------------------------------------------------------------------------
(* What the claims speak of *)

IsPoll(c) == c.Api = "GetByName"

\* the polls of the Create in progress or just ended, in order
Polls == IF op = "Create" THEN SelectSeq(calls, IsPoll) ELSE <<>>

\* the wait of a Create has ended and Create has returned
CreateWaited == op = "Create" /\ pc = "idle" /\ Len(Polls) > 0

AllMissing(p) == \A i \in 1..Len(p) : p[i].Resp = "missing"

----------------------------------------------------------------------------
(* C1: a poll whose error is not "missing" halts the wait: it is the last
   GetByName of that wait, the wait has returned with the halting error, and
   Create reports it as an error diagnostic. *)
C1_FatalHalts ==
    \A i \in 1..Len(Polls) :
        Polls[i].Resp = "other" =>
            /\ i = Len(Polls)
            /\ pc \in {"returned", "idle"}
            /\ pc = "returned" => err = FailedToGet(Polls[i].Err) /\ attempt = i
            /\ pc = "idle" =>
                  /\ Len(diags) = 1
                  /\ diags[1] = ErrorDiagnostic("failed to create function",
                                                FailedToGet(Polls[i].Err))

C1_Witness ==
    /\ CreateWaited
    /\ Len(Polls) = 3
    /\ Polls[3].Resp = "other"
    /\ HasError(diags)

(* C2: when the polls of a wait are answered "missing" k times and then
   "found", the wait succeeds with the found object after exactly k+1
   attempts, no poll follows the found one, and Create reports no failure of
   the wait and, unless converting the result fails, records state; the time
   elapsed is the time the k+1 polls took. *)
C2_FoundEndsWait ==
    \A i \in 1..Len(Polls) :
        Polls[i].Resp = "ok" =>
            /\ i = Len(Polls)
            /\ AllMissing(SubSeq(Polls, 1, i - 1))
            /\ pc \in {"returned", "idle"}
            /\ pc = "returned" =>
                  /\ err = NoErr
                  /\ attempt = i
                  /\ result.FullName = funcInfo.FullName
            /\ pc = "idle" =>
                  /\ \A j \in 1..Len(diags) :
                        diags[j].Summary # "failed to create function"
                  /\ diags = <<>> => stateSet /\ ~state.Null

C2_Witness ==
    /\ op = "Create"
    /\ pc = "returned"
    /\ Len(Polls) = 3
    /\ Polls[1].Resp = "missing" /\ Polls[2].Resp = "missing" /\ Polls[3].Resp = "ok"
    /\ attempt = 3
    /\ err = NoErr
    /\ now <= timeout

(* C3: while every poll of a wait was answered "missing" and the caller has
   not cancelled, the wait does not succeed, and it returns only with the
   timeout error and only once the timeout has been reached; Create then
   fails and records no state. *)
C3_TimeoutNotBefore ==
    (Len(Polls) > 0 /\ AllMissing(Polls)) =>
        /\ (pc = "returned" /\ ~cancelled) =>
              /\ err = TimedOut(NotYetAvailable(funcInfo.FullName))
              /\ now >= timeout
        /\ pc = "returned" => err # NoErr
        /\ pc = "idle" => HasError(diags) /\ ~stateSet /\ state.Null

C3_Witness ==
    /\ op = "Create"
    /\ pc = "returned"
    /\ ~cancelled
    /\ Len(Polls) > 3
    /\ AllMissing(Polls)
    /\ err = TimedOut(NotYetAvailable(funcInfo.FullName))
    /\ now >= timeout

(* C4, as the claim states it: the wait has ended within the timeout. *)
C4_WithinTimeout == pc = "returned" => now <= timeout

\* how a wait that has returned ended
EndedReady == Polls[Len(Polls)].Resp = "ok" /\ err = NoErr
EndedFatal == Polls[Len(Polls)].Resp = "other" /\ err # NoErr
EndedTimeout == AllMissing(Polls) /\ err = TimedOut(lastErr)

(* C4, amended: the wait always terminates; it ends on the first Ready poll,
   on the first Fatal poll, or when its context is done after only
   NotYetAvailable polls; no poll is issued after the timeout, and the wait
   ends no later than the timeout plus the duration of one GetByName call. *)
C4_WaitTerminates ==
    /\ [](pc = "poll" => now <= timeout)
    /\ [](pc = "returned" =>
            /\ now <= timeout + MaxCallTime
            /\ Len(Polls) > 0
            /\ EndedReady \/ EndedFatal \/ EndedTimeout)
    /\ (pc # "idle") ~> (pc = "idle")

C4_Witness ==
    /\ pc = "returned"
    /\ now > timeout
    /\ EndedReady

(* C5: the diagnostic of a Create tells how its wait ended: a wait that ended
   on "missing" polls reports the timeout error, a wait that ended on a Fatal
   poll reports the halting error, and the two are never the same. *)
C5_TimeoutDistinctFromFatal ==
    CreateWaited =>
        /\ Polls[Len(Polls)].Resp = "missing" =>
              /\ Len(diags) = 1
              /\ diags[1].Detail.Prefix = "timed out: "
              /\ diags[1].Detail.Msg = "function %s is not yet available"
        /\ Polls[Len(Polls)].Resp = "other" =>
              /\ Len(diags) = 1
              /\ diags[1].Detail.Prefix = ""
              /\ diags[1].Detail.Msg = "failed to get function: %s"

C5_Witness ==
    /\ CreateWaited
    /\ Polls[Len(Polls)].Resp = "missing"
    /\ Len(Polls) > 30
    /\ diags[1].Detail.Prefix = "timed out: "

\* the same objects with the same content, whether queryable yet or not
SameObjects(a, b) ==
    \A h \in FullNames :
        /\ a[h].Exists = b[h].Exists
        /\ a[h].RoutineDefinition = b[h].RoutineDefinition

(* C6: a Read invoked right after a successful Create, on the state Create
   recorded and with a remote layer that does not fail, finds the object,
   keeps the resource in tracked state and records the identity and the
   mutable fields that Create sent. *)
C6_CreateThenReadRoundTrips ==
    [][(/\ op = "Create" /\ pc = "idle" /\ stateSet
        /\ op' = "Read"
        /\ Len(calls') = 1 /\ calls'[1].Resp # "other")
       => (/\ calls'[1].Resp = "ok"
           /\ ~removed'
           /\ ~state'.Null
           /\ state'.Func = state.Func)]_vars

(* C7: the Read that follows ImportState of an identity X calls GetByName
   with exactly X. *)
C7_ImportReadsByIdentity ==
    [][(/\ op = "ImportState"
        /\ op' = "Read"
        /\ Len(calls') = 1)
       => (/\ calls'[1].Api = "GetByName"
           /\ calls'[1].Arg = ValueString(state.Func.full_name))]_vars

(* C8: a Read whose GetByName is answered "missing" removes the resource from
   tracked state and adds no error diagnostic. *)
C8_ReadMissingIsNotFound ==
    (op = "Read" /\ Len(calls) = 1 /\ calls[1].Resp = "missing") =>
        /\ removed
        /\ state.Null
        /\ diags = <<>>
        /\ ~stateSet

C8_Witness ==
    /\ op = "Read"
    /\ Len(calls) = 1
    /\ calls[1].Resp = "missing"
    /\ ~Lookup(before.remote, calls[1].Arg).Exists
    /\ ~before.state.Null
    /\ removed

(* C9: a Delete of a handle whose remote object is already absent, answered
   as such by the remote layer, adds no error diagnostic and leaves the
   objects of the remote system as they were. *)
C9_DeleteIdempotent ==
    (/\ op = "Delete"
     /\ Len(calls) = 1
     /\ ~Lookup(before.remote, calls[1].Arg).Exists
     /\ calls[1].Resp # "other") =>
        /\ calls[1].Resp = "missing"
        /\ diags = <<>>
        /\ SameObjects(remote, before.remote)

C9_Witness ==
    /\ op = "Delete"
    /\ Len(calls) = 1
    /\ calls[1].Arg \in FullNames
    /\ ~before.remote[calls[1].Arg].Exists
    /\ calls[1].Resp = "missing"
    /\ diags = <<>>
    /\ state.Null

(* C10: when the remote Create call fails, Create returns with one error
   diagnostic that carries the remote error message; that Create call is the
   only remote call of the invocation (no retry, no poll) and no state is
   recorded. *)
C10_CreateErrorNoRetry ==
    (op = "Create" /\ Len(calls) > 0 /\ calls[1].Resp # "ok") =>
        /\ Len(calls) = 1
        /\ calls[1].Api = "Create"
        /\ pc = "idle"
        /\ diags = <<ErrorDiagnostic("failed to create function",
                                     ErrorText(calls[1].Err))>>
        /\ ~stateSet
        /\ state = before.state

C10_Witness ==
    /\ op = "Create"
    /\ Len(calls) = 1
    /\ calls[1].Api = "Create"
    /\ calls[1].Err = "already exists"
    /\ HasError(diags)
    /\ state.Null

(* C11: no handler repeats a remote call, except the wait: Read, Update and
   Delete make at most one call each, of their own API; Create makes at most
   one Create call, first, and every later call of its invocation is a
   GetByName poll that follows a poll answered "missing" (or the Create). *)
C11_NoRetryOutsideWait ==
    /\ op \in {"none", "ImportState"} => calls = <<>>
    /\ op = "Read" => Len(calls) <= 1 /\ \A i \in 1..Len(calls) : calls[i].Api = "GetByName"
    /\ op = "Update" => Len(calls) <= 1 /\ \A i \in 1..Len(calls) : calls[i].Api = "Update"
    /\ op = "Delete" =>
          Len(calls) <= 1 /\ \A i \in 1..Len(calls) : calls[i].Api = "DeleteByName"
    /\ op = "Create" =>
          \A i \in 1..Len(calls) :
              /\ calls[i].Api = "Create" <=> i = 1
              /\ i > 1 => calls[i].Api = "GetByName"
              /\ i > 2 => calls[i - 1].Resp = "missing"

C11_Witness ==
    /\ op = "Create"
    /\ pc = "idle"
    /\ Len(calls) = 5
    /\ calls[4].Resp = "missing"
    /\ calls[5].Resp = "ok"
    /\ stateSet

(* C12: once the caller has cancelled the context of a Create that is in
   its wait, the wait does not go on: in its pause it returns with an error
   without waiting for the timer, at the latest at the timeout, and without
   another poll; a poll begun on the cancelled context fails and halts the
   wait; Create then returns an error diagnostic and records no state. *)
C12_CancelAbandonsWait ==
    [][(cancelled /\ pc' # pc) =>
        /\ pc = "sleep" =>
              /\ pc' = "returned"
              /\ err' # NoErr
              /\ attempt' = attempt
              /\ calls' = calls
              /\ now' <= timerAt
              /\ now < timeout => now' <= timeout
        /\ pc = "poll" =>
              /\ pc' = "returned"
              /\ err' # NoErr
              /\ calls'[Len(calls')].Err = "context canceled"
        /\ pc = "returned" =>
              /\ pc' = "idle"
              /\ calls' = calls
              /\ HasError(diags')
              /\ ~stateSet'
              /\ state'.Null]_vars

C12_Witness ==
    /\ op = "Create"
    /\ pc = "returned"
    /\ cancelled
    /\ Len(Polls) = 2
    /\ AllMissing(Polls)
    /\ now < timeout
    /\ err = TimedOut(NotYetAvailable(funcInfo.FullName))

(* C13: a Read whose GetByName fails with an error that is not "missing"
   reports exactly one error diagnostic, carrying that error, does not remove
   the resource and does not rewrite the tracked state. *)
C13_ReadErrorSurfaced ==
    (op = "Read" /\ Len(calls) = 1 /\ calls[1].Resp = "other") =>
        /\ diags = <<ErrorDiagnostic("failed to get function", ErrorText(calls[1].Err))>>
        /\ ~removed
        /\ ~stateSet
        /\ state = before.state

C13_Witness ==
    /\ op = "Read"
    /\ Len(calls) = 1
    /\ calls[1].Resp = "other"
    /\ Len(diags) = 1
    /\ ~state.Null
    /\ ~state.Func.name.IsNull

(* C14, as the claim states it: Delete reports an error diagnostic exactly
   when DeleteByName returned an error that is not "missing". *)
C14_ErrorIffNotMissing ==
    op = "Delete" =>
        (HasError(diags) <=> (Len(calls) = 1 /\ calls[1].Resp = "other"))

(* C14, amended: a Delete that has called DeleteByName reports an error
   diagnostic exactly when the call returned an error that is not "missing";
   a Delete that fails before the call reports that failure and makes no
   call. The "missing" answer that makes Read remove the resource from state
   makes Delete succeed silently. *)
C14_DeleteErrorIffCallFailed ==
    /\ op = "Delete" =>
          /\ HasError(diags) <=> (calls = <<>> \/ calls[1].Resp = "other")
          /\ (Len(calls) = 1 /\ calls[1].Resp = "missing") =>
                diags = <<>> /\ ~removed /\ state.Null
          /\ HasError(diags) => state = before.state
    /\ (op = "Read" /\ Len(calls) = 1 /\ calls[1].Resp = "missing") =>
          removed /\ diags = <<>>

C14_Witness ==
    /\ op = "Delete"
    /\ Len(calls) = 1
    /\ calls[1].Resp = "other"
    /\ Lookup(remote, calls[1].Arg).Exists
    /\ HasError(diags)
    /\ ~state.Null

(* C15: the only field of the reconciler, Client, changes only from nil to a
   configured client, and only in a step that changes nothing else (a
   Configure); no step of Create, Read, Update, Delete, ImportState or of a
   wait in progress writes it, and once set it keeps its value. *)
C15_ClientWrittenOnceByConfigure ==
    [][Client' # Client =>
        /\ Client = "nil"
        /\ Client' = "configured"
        /\ UNCHANGED <<remote, state, pc, op, planFunc, funcInfo, attempt,
                       lastErr, result, err, now, timerAt, cancelled, diags,
                       calls, removed, stateSet, before>>]_vars

C15_Witness ==
    /\ Client = "configured"
    /\ op = "Create"
    /\ pc = "sleep"
    /\ attempt = 2
    /\ before.state.Null

(* C16: a Create, Update or Read that reports an error diagnostic has not
   called State.Set and has not removed the resource: the tracked state is
   the one it began with. A Create in its wait has not written state yet.
   Update never removes the resource, also when the remote object is
   missing. *)
C16_StateWrittenOnlyOnSuccess ==
    /\ (op \in {"Create", "Update", "Read"} /\ HasError(diags)) =>
          /\ ~stateSet
          /\ ~removed
          /\ state = before.state
    /\ (op = "Create" /\ pc # "idle") => state = before.state /\ ~stateSet
    /\ op = "Update" =>
          /\ ~removed
          /\ (Len(calls) = 1 /\ calls[1].Resp = "missing") =>
                HasError(diags) /\ state = before.state /\ ~state.Null

C16_Witness ==
    /\ op = "Create"
    /\ pc = "idle"
    /\ Len(Polls) > 0
    /\ Polls[Len(Polls)].Resp = "ok"
    /\ HasError(diags)
    /\ diags[1].Summary = "toTf"
    /\ state.Null

(* C17: a Create whose remote Create call succeeded and whose wait then
   failed returns an error diagnostic, records no state and makes no
   DeleteByName call: the object it created is still on the remote system,
   untracked. *)
C17_NoCompensation ==
    (CreateWaited /\ Polls[Len(Polls)].Resp # "ok") =>
        /\ HasError(diags)
        /\ ~stateSet
        /\ state.Null
        /\ \A i \in 1..Len(calls) : calls[i].Api # "DeleteByName"
        /\ calls[1].Api = "Create" /\ calls[1].Resp = "ok"
        /\ Lookup(remote, Polls[1].Arg).Exists

C17_Witness ==
    /\ CreateWaited
    /\ Polls[Len(Polls)].Err = "context canceled"
    /\ HasError(diags)
    /\ state.Null
    /\ Lookup(remote, Polls[1].Arg).Exists
    /\ Lookup(remote, Polls[1].Arg).Visible

(* C18: the state a successful Create records is converted from the object
   of the Ready poll, whatever the Create call had answered; while the wait
   runs the provisional object is not touched, and a wait that fails leaves
   it as the Create call returned it. *)
C18_StateFromPolledObject ==
    [][/\ (pc = "returned" /\ pc' = "idle" /\ err = NoErr /\ diags' = <<>>) =>
             /\ stateSet'
             /\ state' = StateOf(GoSdkToTfSdkStruct(result, planFunc))
             /\ state'.Func.routine_definition = StringValue(result.RoutineDefinition)
       /\ (pc = "returned" /\ err # NoErr) =>
             /\ FuncInfoAfterWait(err, funcInfo, result) = funcInfo
             /\ state' = state
       /\ (pc \in {"poll", "sleep"}) => funcInfo' = funcInfo]_vars

C18_Witness ==
    /\ op = "Create"
    /\ pc = "returned"
    /\ err = NoErr
    /\ result.FullName = funcInfo.FullName
    /\ result.RoutineDefinition # funcInfo.RoutineDefinition

====
